---------------------------- MODULE Spec2Model ----------------------------
(***************************************************************************)
(* salvo core, conn layer: the unified socket address model (conn/addr.rs) *)
(* and the TCP listener / acceptor pair with its connection-serving glue   *)
(* (conn/tcp.rs).                                                          *)
(*                                                                         *)
(* Encodings.  Option<T>: None is <<>>, Some(x) is <<x>>.  IoResult<T>:    *)
(* Ok(v) is [ok |-> TRUE, val |-> v], Err(e) is [ok |-> FALSE, err |-> e]. *)
(* Text is a TLA+ string, built with \o exactly as the format strings of   *)
(* the source build it.                                                    *)
(***************************************************************************)
EXTENDS Integers, Sequences, FiniteSets, TLC

VARIABLES
    made,       \* how many TcpListener values have been constructed so far
    listener,   \* per listener: Option<TcpListener>, the unbound configuration
    acceptor,   \* per listener: Option<TcpAcceptor>, {inner, local_addr}
    sockets,    \* operating system: the listening sockets, [fd, addr]
    conns,      \* operating system / runtime: every connection attempt so far
    call        \* the last call that returned (or drop): the OS's answer, the value

vars == <<made, listener, acceptor, sockets, conns, call>>

(***************************************************************************)
(* Bounds of the model.                                                    *)
(***************************************************************************)
NListeners == 2
MaxConns == 2

Listeners == 1..NListeners

None == <<>>
Some(x) == <<x>>
Ok(v) == [ok |-> TRUE, val |-> v]
Err(e) == [ok |-> FALSE, err |-> e]
Unit == "()"

(***************************************************************************)
(* std::net addresses.  SocketAddrV4 is {ip: 4 octets, port}; SocketAddrV6 *)
(* is {ip: 8 segments, port, flowinfo, scope_id}; std::net::SocketAddr is  *)
(* the two-variant enum over them.                                         *)
(***************************************************************************)
V4(ip, port) == [ip |-> ip, port |-> port]
V6(ip, port, flowinfo, scope_id) ==
    [ip |-> ip, port |-> port, flowinfo |-> flowinfo, scope_id |-> scope_id]
StdV4(val) == [fam |-> "V4", val |-> val]
StdV6(val) == [fam |-> "V6", val |-> val]

Loopback4 == <<127, 0, 0, 1>>
Loopback6 == <<0, 0, 0, 0, 0, 0, 0, 1>>

(***************************************************************************)
(* enum SocketAddr { Unknown, IPv4(..), IPv6(..), Unix(Arc<..>) }          *)
(* A Unix address is known by its pathname, if it has one.                 *)
(***************************************************************************)
Unknown == [tag |-> "Unknown"]
IPv4(val) == [tag |-> "IPv4", val |-> val]
IPv6(val) == [tag |-> "IPv6", val |-> val]
Unix(pathname) == [tag |-> "Unix", pathname |-> pathname]

\* impl From<std::net::SocketAddr> for SocketAddr
From_std(addr) ==
    CASE addr.fam = "V4" -> IPv4(addr.val)
      [] addr.fam = "V6" -> IPv6(addr.val)

is_ipv4(self) == self.tag = "IPv4"
is_ipv6(self) == self.tag = "IPv6"
is_unix(self) == self.tag = "Unix"

\* A faulty variant of into_std: only the IPv4 arm converts, the IPv6 arm falls to `_`.
into_std_v4_only(self) ==
    CASE self.tag = "IPv4" -> Some(StdV4(self.val))
      [] OTHER -> None

into_std(self) ==
    CASE self.tag = "IPv4" -> Some(StdV4(self.val))
      [] self.tag = "IPv6" -> Some(StdV6(self.val))
      [] OTHER -> None

as_ipv6(self) ==
    CASE self.tag = "IPv6" -> Some(self.val)
      [] OTHER -> None

\* A faulty variant of as_ipv4: the match arm names the wrong variant.
as_ipv4_any_ip(self) ==
    CASE self.tag \in {"IPv4", "IPv6"} -> Some(self.val)
      [] OTHER -> None

as_ipv4(self) ==
    CASE self.tag = "IPv4" -> Some(self.val)
      [] OTHER -> None

as_unix(self) ==
    CASE self.tag = "Unix" -> Some(self.pathname)
      [] OTHER -> None

(***************************************************************************)
(* Display of the std address types, which the format strings of addr.rs   *)
(* interpolate with {}.                                                    *)
(***************************************************************************)
HexDigit(d) == SubSeq("0123456789abcdef", d + 1, d + 1)

RECURSIVE Hex(_)
Hex(n) == IF n < 16 THEN HexDigit(n) ELSE Hex(n \div 16) \o HexDigit(n % 16)

Ipv4Text(ip) ==
    ToString(ip[1]) \o "." \o ToString(ip[2]) \o "." \o
    ToString(ip[3]) \o "." \o ToString(ip[4])

\* segments i..j joined by ":" (empty when i > j)
RECURSIVE HexRun(_, _, _)
HexRun(ip, i, j) ==
    IF i > j THEN ""
    ELSE IF i = j THEN Hex(ip[i])
    ELSE Hex(ip[i]) \o ":" \o HexRun(ip, i + 1, j)

\* length of the run of zero segments that starts at i
RECURSIVE ZeroRun(_, _)
ZeroRun(ip, i) == IF i > 8 \/ ip[i] # 0 THEN 0 ELSE 1 + ZeroRun(ip, i + 1)

\* start of the first longest run of zero segments
LongestZeroStart(ip) ==
    CHOOSE i \in 1..8 :
        /\ \A j \in 1..8 : ZeroRun(ip, j) <= ZeroRun(ip, i)
        /\ \A j \in 1..(i - 1) : ZeroRun(ip, j) < ZeroRun(ip, i)

Ipv6Text(ip) ==
    IF \A i \in 1..5 : ip[i] = 0 /\ ip[6] = 65535
    THEN "::ffff:" \o Ipv4Text(<<ip[7] \div 256, ip[7] % 256,
                                 ip[8] \div 256, ip[8] % 256>>)
    ELSE LET s == LongestZeroStart(ip)
             n == ZeroRun(ip, s)
         IN  IF n > 1
             THEN HexRun(ip, 1, s - 1) \o "::" \o HexRun(ip, s + n, 8)
             ELSE HexRun(ip, 1, 8)

SocketAddrV4Text(a) == Ipv4Text(a.ip) \o ":" \o ToString(a.port)

SocketAddrV6Text(a) ==
    IF a.scope_id = 0
    THEN "[" \o Ipv6Text(a.ip) \o "]:" \o ToString(a.port)
    ELSE "[" \o Ipv6Text(a.ip) \o "%" \o ToString(a.scope_id) \o "]:"
             \o ToString(a.port)

\* impl Display for SocketAddr
SocketAddr_fmt(self) ==
    CASE self.tag = "Unknown" -> "unknown"
      [] self.tag = "IPv4" -> "socket://" \o SocketAddrV4Text(self.val)
      [] self.tag = "IPv6" -> "socket://" \o SocketAddrV6Text(self.val)
      [] self.tag = "Unix" ->
            IF self.pathname # None
            THEN "unix://" \o self.pathname[1]
            ELSE "unix://unknown"

(***************************************************************************)
(* struct LocalAddr { addr, trans_proto, app_proto }                       *)
(***************************************************************************)
\* The variants of TransProto and AppProto that addr.rs and tcp.rs name.
TransProtos == {"Tcp", "Unknown"}
AppProtos == {"Http", "Unknown"}

\* Display of the two protocol tags (conn/mod.rs).
TransProto_fmt(p) ==
    CASE p = "Tcp" -> "TCP"
      [] OTHER -> "unknown"

AppProto_fmt(p) ==
    CASE p = "Http" -> "HTTP"
      [] OTHER -> "unknown"

LocalAddr_new(addr, trans_proto, app_proto) ==
    [addr |-> addr, trans_proto |-> trans_proto, app_proto |-> app_proto]

LocalAddr_default == LocalAddr_new(Unknown, "Unknown", "Unknown")

LocalAddr_into_std(self) == into_std(self.addr)

\* DerefMut for LocalAddr: `*local = value` overwrites the inner address.
deref_mut_assign(self, value) == [self EXCEPT !.addr = value]

\* A faulty variant of the LocalAddr Display: the bare-address scheme in the IP arms.
LocalAddr_fmt_socket_scheme(self) ==
    CASE self.addr.tag = "Unknown" -> "unknown"
      [] self.addr.tag = "IPv4" ->
            "(" \o TransProto_fmt(self.trans_proto) \o ") socket://"
                \o SocketAddrV4Text(self.addr.val)
      [] self.addr.tag = "IPv6" ->
            "(" \o TransProto_fmt(self.trans_proto) \o ") socket://"
                \o SocketAddrV6Text(self.addr.val)
      [] self.addr.tag = "Unix" ->
            IF self.addr.pathname # None
            THEN "(" \o TransProto_fmt(self.trans_proto) \o ") unix://"
                     \o self.addr.pathname[1]
            ELSE "({}) unix://unknown"

\* impl Display for LocalAddr.  The pathless Unix arm hands its template to
\* write_str, which writes a string as it stands and interpolates nothing:
\* the text written is the template itself.
LocalAddr_fmt(self) ==
    CASE self.addr.tag = "Unknown" -> "unknown"
      [] self.addr.tag = "IPv4" ->
            "(" \o TransProto_fmt(self.trans_proto) \o ") "
                \o AppProto_fmt(self.app_proto) \o "://"
                \o SocketAddrV4Text(self.addr.val)
      [] self.addr.tag = "IPv6" ->
            "(" \o TransProto_fmt(self.trans_proto) \o ") "
                \o AppProto_fmt(self.app_proto) \o "://"
                \o SocketAddrV6Text(self.addr.val)
      [] self.addr.tag = "Unix" ->
            IF self.addr.pathname # None
            THEN "(" \o TransProto_fmt(self.trans_proto) \o ") unix://"
                     \o self.addr.pathname[1]
            ELSE "({}) unix://unknown"


(***************************************************************************)
(* The address functions on their own: every call takes its input from a   *)
(* bounded set of addresses and records the value returned.                *)
(***************************************************************************)
V4Vals ==
    {V4(ip, port) : ip \in {Loopback4, <<0, 0, 0, 0>>, <<192, 168, 0, 10>>},
                    port \in {0, 8080, 65535}}

V6Vals ==
    {V6(Loopback6, port, 0, 0) : port \in {0, 8080}}
        \cup {V6(<<0, 0, 0, 0, 0, 65535, 0, 1>>, 8080, 0, 0),
              V6(<<8193, 3512, 0, 0, 0, 0, 0, 1>>, 443, 7, 0),
              V6(<<65152, 0, 0, 0, 0, 0, 0, 1>>, 8080, 0, 2),
              V6(<<0, 0, 0, 0, 0, 0, 0, 0>>, 65535, 0, 0)}

StdAddrs == {StdV4(v) : v \in V4Vals} \cup {StdV6(v) : v \in V6Vals}

UnixNames == {None, Some("/tmp/salvo.sock"), Some("/run/app.sock")}

\* impl From<SocketAddrV4>, From<SocketAddrV6>, From<unix::SocketAddr>
From_v4(addr) == IPv4(addr)
From_v6(addr) == IPv6(addr)
From_unix(addr) == Unix(addr)

SocketAddrs ==
    {Unknown} \cup {From_v4(v) : v \in V4Vals} \cup {From_v6(v) : v \in V6Vals}
        \cup {From_unix(n) : n \in UnixNames}

LocalAddrs ==
    {LocalAddr_new(a, t, p) : a \in SocketAddrs, t \in TransProtos, p \in AppProtos}

NoCall == [op |-> "none", slot |-> 0, arg |-> Unit, os |-> Unit,
           before |-> Unit, ret |-> Unit]

PureCall(op, arg, ret) ==
    [op |-> op, slot |-> 0, arg |-> arg, os |-> Unit, before |-> Unit, ret |-> ret]

MachineIdle == UNCHANGED <<made, listener, acceptor, sockets, conns>>

\* std address -> SocketAddr -> into_std()
CallFromIntoStd ==
    \E a \in StdAddrs :
        /\ call' = PureCall("from_into_std", a, into_std(From_std(a)))
        /\ MachineIdle

CallIntoStd ==
    \E x \in SocketAddrs :
        /\ call' = PureCall("into_std", x, into_std(x))
        /\ MachineIdle

CallLocalIntoStd ==
    \E la \in LocalAddrs :
        /\ call' = PureCall("local_into_std", la, LocalAddr_into_std(la))
        /\ MachineIdle

CallPredicates ==
    \E x \in SocketAddrs :
        /\ call' = PureCall("predicates", x,
                        [is_ipv4 |-> is_ipv4(x), is_ipv6 |-> is_ipv6(x),
                         is_unix |-> is_unix(x), as_ipv4 |-> as_ipv4(x),
                         as_ipv6 |-> as_ipv6(x), as_unix |-> as_unix(x)])
        /\ MachineIdle

CallSocketFmt ==
    \E x \in SocketAddrs :
        /\ call' = PureCall("socket_fmt", x, SocketAddr_fmt(x))
        /\ MachineIdle

CallLocalFmt ==
    \E la \in LocalAddrs :
        /\ call' = PureCall("local_fmt", la, LocalAddr_fmt(la))
        /\ MachineIdle

CallDefault ==
    /\ call' = PureCall("default", Unit, LocalAddr_default)
    /\ MachineIdle

Init ==
    /\ made = 0
    /\ listener = [l \in Listeners |-> None]
    /\ acceptor = [l \in Listeners |-> None]
    /\ sockets = {}
    /\ conns = <<>>
    /\ call = NoCall

NextAddr ==
    \/ CallFromIntoStd
    \/ CallIntoStd
    \/ CallLocalIntoStd
    \/ CallPredicates
    \/ CallSocketFmt
    \/ CallLocalFmt
    \/ CallDefault

SpecAddr == Init /\ [][NextAddr]_vars


(***************************************************************************)
(* The operating system and the runtime, as far as tcp.rs relies on them.  *)
(***************************************************************************)
IoError(kind, msg) == [kind |-> kind, msg |-> msg]
EADDRINUSE == IoError("AddrInUse", "Address already in use (os error 98)")
EACCES == IoError("PermissionDenied", "Permission denied (os error 13)")
ENOBUFS == IoError("Uncategorized", "No buffer space available (os error 105)")
EMFILE == IoError("Uncategorized", "Too many open files (os error 24)")
ECONNABORTED ==
    IoError("ConnectionAborted", "Software caused connection abort (os error 103)")
NoAddresses == IoError("InvalidInput", "could not resolve to any address")

\* What a ToSocketAddrs specification resolves to, in resolution order:
\* a literal address, a wildcard port, a host name with two addresses,
\* a privileged port, and a name that resolves to nothing.
AddrSpecs ==
    {<<StdV4(V4(Loopback4, 6878))>>,
     <<StdV4(V4(Loopback4, 0))>>,
     <<StdV6(V6(Loopback6, 6878, 0, 0)), StdV4(V4(Loopback4, 6878))>>,
     <<StdV4(V4(Loopback4, 80))>>,
     <<>>}

EphemeralPorts == {49152, 49153}

WithPort(addr, port) == [addr EXCEPT !.val.port = port]

InUse(addr) == \E s \in sockets : s.addr = addr

\* the lowest descriptor not in use
FreeFd == CHOOSE n \in 1..(NListeners + 1) :
              /\ \A s \in sockets : s.fd # n
              /\ \A m \in 1..(n - 1) : \E s \in sockets : s.fd = m

\* bind(2) + listen(2) on one resolved address: the possible answers
BindAddr(addr) ==
    IF addr.val.port = 0
    THEN LET free == {p \in EphemeralPorts : ~InUse(WithPort(addr, p))}
         IN  IF free = {} THEN {Err(EADDRINUSE)}
             ELSE {Ok([fd |-> FreeFd, addr |-> WithPort(addr, p)]) : p \in free}
    ELSE IF addr.val.port < 1024 THEN {Err(EACCES)}
    ELSE IF InUse(addr) THEN {Err(EADDRINUSE)}
    ELSE {Ok([fd |-> FreeFd, addr |-> addr])}

\* tokio TcpListener::bind: each resolved address in turn, the first that
\* binds wins, otherwise the last error
RECURSIVE BindFrom(_, _, _)
BindFrom(addrs, i, last) ==
    IF i > Len(addrs) THEN {Err(last)}
    ELSE UNION {IF r.ok THEN {r} ELSE BindFrom(addrs, i + 1, r.err) :
                    r \in BindAddr(addrs[i])}

TokioBind(addrs) == BindFrom(addrs, 1, NoAddresses)

\* tokio TcpListener::local_addr (getsockname): the bound address, or an error
TokioLocalAddr(inner) == {Ok(inner.addr), Err(ENOBUFS)}

\* tokio write_i32 / read_i32: four bytes, big-endian, two's complement
WriteI32(n) ==
    <<(n \div 16777216) % 256, (n \div 65536) % 256, (n \div 256) % 256, n % 256>>

ReadI32(bytes) ==
    (IF bytes[1] >= 128 THEN bytes[1] - 256 ELSE bytes[1]) * 16777216
        + bytes[2] * 65536 + bytes[3] * 256 + bytes[4]

Payloads == {150}

ConnIds == 1..Len(conns)

\* the connection attempts waiting on a listening descriptor, oldest first
Queue(fd) == {c \in ConnIds : conns[c].fd = fd /\ conns[c].st = "queued"}
HasHead(fd) == Queue(fd) # {}
QueueHead(fd) == CHOOSE c \in Queue(fd) : \A d \in Queue(fd) : c <= d

Serving == {c \in ConnIds : conns[c].st = "serving"}

PeerOf(addr, id) ==
    IF addr.fam = "V4" THEN StdV4(V4(Loopback4, 50000 + id))
    ELSE StdV6(V6(Loopback6, 50000 + id, 0, 0))

\* tokio TcpListener::accept on a descriptor with a waiting attempt: the
\* attempt is delivered as (stream, peer address); or its peer has reset it
\* during the handshake and it is consumed with ECONNABORTED; or the process
\* is out of descriptors, the call fails and the attempt stays queued.
TokioAccept(fd) ==
    IF ~HasHead(fd) THEN {}
    ELSE LET c == QueueHead(fd)
         IN  {[id |-> 0, os |-> Err(EMFILE)],
              [id |-> c, os |-> Err(ECONNABORTED)],
              [id |-> c,
               os |-> Ok([conn |-> [id |-> c, bytes |-> conns[c].bytes],
                          peer |-> conns[c].peer])]}

\* Errors the serving engine reports, and their Display text.
EngineErrors == {"IncompleteMessage", "Parse"}

Error_to_string(e) ==
    CASE e = "IncompleteMessage" -> "connection closed before message completed"
      [] e = "Parse" -> "invalid HTTP version parsed"

\* http1.serve_connection(..).with_upgrades().await: how the engine may end
EngineOutcomes == {Ok(Unit)} \cup {Err(e) : e \in EngineErrors}


(***************************************************************************)
(* conn/tcp.rs                                                             *)
(***************************************************************************)
Called(op, slot, arg, os, before, ret) ==
    [op |-> op, slot |-> slot, arg |-> arg, os |-> os, before |-> before, ret |-> ret]

\* TcpListener::bind: keeps the address specification, binds nothing
TcpListener_bind(addr) == [addr |-> addr]

\* The l-th listener of the run is constructed.
bind(l) ==
    \E addr \in AddrSpecs :
        /\ l = made + 1
        /\ made' = l
        /\ listener' = [listener EXCEPT ![l] = Some(TcpListener_bind(addr))]
        /\ UNCHANGED <<acceptor, sockets, conns, call>>

\* A faulty variant of into_acceptor_ret: a failed local_addr() is papered
\* over with the default LocalAddr instead of being returned.
into_acceptor_ret_default(b, q) ==
    IF ~b.ok THEN Err(b.err)
    ELSE Ok([inner |-> b.val.fd,
             local_addr |-> IF q.ok
                            THEN LocalAddr_new(From_std(q.val), "Tcp", "Http")
                            ELSE LocalAddr_default])

\* A faulty variant of into_acceptor_ret: the LocalAddr is left with default tags.
into_acceptor_ret_untagged(b, q) ==
    IF ~b.ok THEN Err(b.err)
    ELSE IF ~q.ok THEN Err(q.err)
    ELSE Ok([inner |-> b.val.fd,
             local_addr |-> LocalAddr_new(From_std(q.val), "Unknown", "Unknown")])

\* The value of into_acceptor, given the runtime's answer b to bind and its
\* answer q to local_addr (asked only when the bind succeeded); each `?`
\* returns the error it meets as it is.
into_acceptor_ret(b, q) ==
    IF ~b.ok THEN Err(b.err)
    ELSE IF ~q.ok THEN Err(q.err)
    ELSE Ok([inner |-> b.val.fd,
             local_addr |-> LocalAddr_new(From_std(q.val), "Tcp", "Http")])

\* into_acceptor consumes the listener.  The new descriptor stays open only
\* inside the acceptor returned: on an early return `inner` is dropped, which
\* closes it.
into_acceptor(l) ==
    /\ listener[l] # None
    /\ \E b \in TokioBind(listener[l][1].addr) :
       \E q \in (IF b.ok THEN TokioLocalAddr(b.val) ELSE {None}) :
           LET ret == into_acceptor_ret(b, q)
           IN  /\ listener' = [listener EXCEPT ![l] = None]
               /\ acceptor' = [acceptor EXCEPT
                                  ![l] = IF ret.ok THEN Some(ret.val) ELSE None]
               /\ sockets' = IF ret.ok THEN sockets \cup {b.val} ELSE sockets
               /\ call' = Called("into_acceptor", l, listener[l][1].addr,
                                 [bind |-> b, local_addr |-> q], acceptor, ret)
               /\ UNCHANGED <<made, conns>>

\* vec![self.local_addr.clone()]
local_addrs_ret(self) == <<self.local_addr>>

local_addrs(l) ==
    /\ acceptor[l] # None
    /\ call' = Called("local_addrs", l, Unit, Unit, acceptor[l][1],
                      local_addrs_ret(acceptor[l][1]))
    /\ UNCHANGED <<made, listener, acceptor, sockets, conns>>

\* The caller overwrites the address of a LocalAddr it has just been handed
\* (DerefMut): the one in the Vec from local_addrs(), or the one in the
\* Accepted record from accept().
deref_mut(value) ==
    /\ \/ /\ call.op = "local_addrs"
          /\ call.ret # <<>>
          /\ call' = [call EXCEPT !.op = "deref_mut",
                                  !.ret[1] = deref_mut_assign(@, value)]
       \/ /\ call.op = "accept"
          /\ call.ret.ok
          /\ call' = [call EXCEPT !.op = "deref_mut",
                                  !.ret.val.local_addr = deref_mut_assign(@, value)]
    /\ UNCHANGED <<made, listener, acceptor, sockets, conns>>

\* A faulty variant of accept_ret: the record is tagged with a default LocalAddr.
accept_ret_default_local(self, os) ==
    IF os.ok
    THEN Ok([conn |-> os.val.conn, local_addr |-> LocalAddr_default,
             remote_addr |-> From_std(os.val.peer)])
    ELSE Err(os.err)

\* self.inner.accept().await.map(|(conn, remote_addr)| Accepted {..})
accept_ret(self, os) ==
    IF os.ok
    THEN Ok([conn |-> os.val.conn, local_addr |-> self.local_addr,
             remote_addr |-> From_std(os.val.peer)])
    ELSE Err(os.err)

\* A faulty variant of accept_outcomes: accept waits until no connection of this
\* acceptor is being served.
accept_outcomes_serial(l) ==
    IF \E c \in Serving : conns[c].fd = acceptor[l][1].inner THEN {}
    ELSE {[id |-> o.id, os |-> o.os, ret |-> accept_ret(acceptor[l][1], o.os)] :
              o \in TokioAccept(acceptor[l][1].inner)}

\* How a call of accept() on listener l's acceptor can complete now.  It awaits the
\* listener and nothing else.
accept_outcomes(l) ==
    {[id |-> o.id, os |-> o.os, ret |-> accept_ret(acceptor[l][1], o.os)] :
         o \in TokioAccept(acceptor[l][1].inner)}

\* accept() completing with outcome o: the attempt leaves the queue, the
\* acceptor (&mut self) is assigned nothing.  The call record notes, as its
\* argument, which connections were inside serve() at that moment.
accept_step(l, o) ==
    /\ conns' = IF o.id = 0 THEN conns
                ELSE [conns EXCEPT ![o.id].st = IF o.os.ok THEN "accepted"
                                                ELSE "failed"]
    /\ call' = Called("accept", l, Serving, o.os, acceptor[l][1], o.ret)
    /\ UNCHANGED <<made, listener, acceptor, sockets>>

\* The listening descriptor of listener l is closed with its acceptor;
\* attempts still queued on it are refused.
close_step(l) ==
    /\ acceptor' = [acceptor EXCEPT ![l] = None]
    /\ sockets' = {s \in sockets : s.fd # acceptor[l][1].inner}
    /\ conns' = [c \in ConnIds |->
                    IF conns[c].fd = acceptor[l][1].inner /\ conns[c].st = "queued"
                    THEN [conns[c] EXCEPT !.st = "refused"]
                    ELSE conns[c]]
    /\ UNCHANGED <<made, listener>>

\* A faulty variant of accept: a failed accept gives the listener up.
accept_closing(l) ==
    /\ acceptor[l] # None
    /\ \E o \in accept_outcomes(l) :
           IF o.os.ok THEN accept_step(l, o)
           ELSE /\ close_step(l)
                /\ call' = Called("accept", l, Serving, o.os, acceptor[l][1], o.ret)

accept(l) ==
    /\ acceptor[l] # None
    /\ \E o \in accept_outcomes(l) : accept_step(l, o)

\* The acceptor goes out of scope.
drop(l) ==
    /\ acceptor[l] # None
    /\ close_step(l)
    /\ call' = Called("drop", l, Unit, Unit, Unit, Unit)

\* A client connects to a listening socket and writes an i32.
connect ==
    \E s \in sockets, v \in Payloads :
        /\ Len(conns) < MaxConns
        /\ conns' = Append(conns,
                        [fd |-> s.fd, peer |-> PeerOf(s.addr, Len(conns) + 1),
                         bytes |-> WriteI32(v), st |-> "queued", runs |-> 0])
        /\ UNCHANGED <<made, listener, acceptor, sockets, call>>

\* A faulty variant of serve_ret: the engine's error is dropped.
serve_ret_swallow(outcome) == Ok(Unit)

\* .map_err(|e| IoError::new(ErrorKind::Other, e.to_string()))
serve_ret(outcome) ==
    IF outcome.ok THEN Ok(Unit)
    ELSE Err(IoError("Other", Error_to_string(outcome.err)))

\* serve(self, ..) is called on an accepted stream: the stream moves into the
\* engine, which starts running.
serve_call(c) ==
    /\ conns[c].st = "accepted"
    /\ conns' = [conns EXCEPT ![c].st = "serving", ![c].runs = @ + 1]
    /\ UNCHANGED <<made, listener, acceptor, sockets, call>>

\* The engine finishes and serve returns.
serve_return(c) ==
    /\ conns[c].st = "serving"
    /\ \E outcome \in EngineOutcomes :
           /\ conns' = [conns EXCEPT ![c].st = "done"]
           /\ call' = Called("serve", 0, c, outcome, Unit, serve_ret(outcome))
    /\ UNCHANGED <<made, listener, acceptor, sockets>>

Next ==
    \/ \E l \in Listeners : bind(l)
    \/ \E l \in Listeners : into_acceptor(l)
    \/ \E l \in Listeners : local_addrs(l)
    \/ deref_mut(Unknown)
    \/ \E l \in Listeners : accept(l)
    \/ \E l \in Listeners : drop(l)
    \/ connect
    \/ \E c \in ConnIds : serve_call(c)
    \/ \E c \in ConnIds : serve_return(c)

Spec == Init /\ [][Next]_vars


(***************************************************************************)
(* Properties.                                                             *)
(***************************************************************************)
Live(l) == acceptor[l] # None
SocketOf(fd) == CHOOSE s \in sockets : s.fd = fd
Listening(fd) == \E s \in sockets : s.fd = fd

\* the SocketAddr variant a std address must become
Unified(addr) == IF addr.fam = "V4" THEN IPv4(addr.val) ELSE IPv6(addr.val)

\* the LocalAddr of a TCP acceptor whose descriptor the OS reports bound to addr
TcpHttp(addr) ==
    [addr |-> Unified(addr), trans_proto |-> "Tcp", app_proto |-> "Http"]

\* C1: a failed accept() returns the error the operating system raised, as it
\* is, and leaves the acceptor as it was (same descriptor, still listening,
\* same LocalAddr); whatever failed before, an accept to which the OS delivers
\* a connection succeeds, and a waiting connection can be delivered.
C1_FailedAcceptLeavesAcceptorUsable ==
    /\ call.op = "accept" =>
          /\ ~call.os.ok =>
                /\ call.ret = Err(call.os.err)
                /\ acceptor[call.slot] = Some(call.before)
                /\ Listening(call.before.inner)
                /\ call.before.local_addr = TcpHttp(SocketOf(call.before.inner).addr)
          /\ call.os.ok => call.ret.ok
    /\ \A l \in Listeners :
          (/\ Live(l)
           /\ HasHead(acceptor[l][1].inner)
           /\ \E c \in ConnIds : conns[c].st = "failed")
              => \E o \in accept_outcomes(l) : o.ret.ok

\* C1 witness: with one listener only, an accept succeeded on the acceptor on
\* which an earlier attempt had failed.
C1_Witness ==
    /\ made = 1
    /\ call.op = "accept"
    /\ call.ret.ok
    /\ \E c \in ConnIds : c < call.ret.val.conn.id /\ conns[c].st = "failed"

\* C2: an Accepted record carries the stream the OS delivered for that accept,
\* the LocalAddr computed at bind time and the peer address of the same event,
\* converted; and the LocalAddr of every acceptor stays the one computed at
\* bind time from the address its descriptor is bound to, whatever is called
\* and whatever callers do to the clones they hold.
C2_AcceptedRecord ==
    /\ (call.op = "accept" /\ call.ret.ok) =>
          /\ call.ret.val.conn = call.os.val.conn
          /\ call.ret.val.local_addr = TcpHttp(SocketOf(call.before.inner).addr)
          /\ call.ret.val.remote_addr = Unified(call.os.val.peer)
    /\ \A l \in Listeners :
          Live(l) =>
              /\ Listening(acceptor[l][1].inner)
              /\ acceptor[l][1].local_addr = TcpHttp(SocketOf(acceptor[l][1].inner).addr)

\* C2 witness: an accept on an IPv6 listener returned the stream on which the
\* client wrote 150.
C2_Witness ==
    /\ call.op = "accept"
    /\ call.ret.ok
    /\ call.ret.val.remote_addr.tag = "IPv6"
    /\ ReadI32(call.ret.val.conn.bytes) = 150

\* C3: local_addrs() returns exactly one LocalAddr: the concrete address the
\* OS reports for the descriptor (never port 0), tagged TCP and HTTP, whose
\* into_std() is that address; the acceptor is as it was before the call.
C3_LocalAddrs ==
    call.op = "local_addrs" =>
        /\ Len(call.ret) = 1
        /\ Listening(call.before.inner)
        /\ call.ret[1].addr = Unified(SocketOf(call.before.inner).addr)
        /\ call.ret[1].addr.val.port # 0
        /\ call.ret[1].trans_proto = "Tcp"
        /\ call.ret[1].app_proto = "Http"
        /\ LocalAddr_into_std(call.ret[1]) = Some(SocketOf(call.before.inner).addr)
        /\ acceptor[call.slot] = Some(call.before)

\* C3 witness: local_addrs() on an acceptor bound through a wildcard port
\* reports the port the OS chose.
C3_Witness ==
    /\ call.op = "local_addrs"
    /\ call.ret # <<>>
    /\ call.ret[1].addr.val.port \in EphemeralPorts

\* C4: when the bind or the local-address query fails, into_acceptor returns
\* that error as it is, produces no acceptor and leaves no descriptor open; a
\* bind to addresses all held by other live acceptors fails with AddrInUse;
\* and the other acceptors are untouched, still listening, and can accept.
C4_BindFailure ==
    call.op = "into_acceptor" =>
        /\ ~call.os.bind.ok =>
              /\ call.ret = Err(call.os.bind.err)
              /\ acceptor[call.slot] = None
        /\ (call.os.bind.ok /\ ~call.os.local_addr.ok) =>
              /\ call.ret = Err(call.os.local_addr.err)
              /\ acceptor[call.slot] = None
              /\ call.os.bind.val \notin sockets
        /\ ~call.ret.ok => acceptor[call.slot] = None
        /\ (/\ call.arg # <<>>
            /\ \A i \in 1..Len(call.arg) :
                  \E l \in Listeners \ {call.slot} :
                      /\ Live(l)
                      /\ Listening(acceptor[l][1].inner)
                      /\ SocketOf(acceptor[l][1].inner).addr = call.arg[i])
              => (~call.ret.ok /\ call.ret.err.kind = "AddrInUse")
        /\ \A l \in Listeners \ {call.slot} :
              /\ acceptor[l] = call.before[l]
              /\ Live(l) =>
                    /\ Listening(acceptor[l][1].inner)
                    /\ HasHead(acceptor[l][1].inner)
                          => \E o \in accept_outcomes(l) : o.ret.ok

\* C4 witness: the second bind to an address held by a live acceptor failed
\* with AddrInUse while a connection waits on the first acceptor.
C4_Witness ==
    /\ call.op = "into_acceptor"
    /\ ~call.ret.ok
    /\ call.ret.err.kind = "AddrInUse"
    /\ \E l \in Listeners \ {call.slot} :
          /\ Live(l)
          /\ SocketOf(acceptor[l][1].inner).addr = call.arg[1]
          /\ HasHead(acceptor[l][1].inner)

\* C5: whenever a connection waits on a live acceptor, accept() can complete
\* by delivering it, however many connections accepted earlier are still
\* inside serve(): an acceptor is its descriptor and its LocalAddr, nothing
\* per connection.
C5_AcceptNotBlockedByServe ==
    \A l \in Listeners :
        Live(l) =>
            /\ DOMAIN acceptor[l][1] = {"inner", "local_addr"}
            /\ HasHead(acceptor[l][1].inner) =>
                  \E o \in accept_outcomes(l) :
                      /\ o.ret.ok
                      /\ o.ret.val.conn.id = QueueHead(acceptor[l][1].inner)

\* C5 witness: an accept() returned a connection while a connection accepted
\* earlier was inside serve().
C5_Witness ==
    /\ call.op = "accept"
    /\ call.ret.ok
    /\ call.arg # {}
    /\ \A c \in call.arg : c < call.ret.val.conn.id

\* C6: serve() returns when the engine has finished: success for a clean
\* finish, and for an engine error an I/O error of kind Other carrying that
\* error's text; the stream is consumed by the call, and the engine is run on
\* it once, never again.
C6_ServeFailure ==
    /\ call.op = "serve" =>
          /\ conns[call.arg].st = "done"
          /\ call.os.ok => call.ret = Ok(Unit)
          /\ ~call.os.ok =>
                /\ ~call.ret.ok
                /\ call.ret.err.kind = "Other"
                /\ call.ret.err.msg = Error_to_string(call.os.err)
    /\ \A c \in ConnIds :
          /\ conns[c].runs <= 1
          /\ conns[c].runs = 1 <=> conns[c].st \in {"serving", "done"}

\* C6 witness: serve() returned an engine error.
C6_Witness ==
    /\ call.op = "serve"
    /\ ~call.os.ok
    /\ ~call.ret.ok

\* C7: a std address converted to SocketAddr and back with into_std() is the
\* same address; into_std() of Unknown or Unix is None; LocalAddr::into_std()
\* is what into_std() gives for the inner address, whatever the tags.
C7_IntoStdRoundTrip ==
    /\ call.op = "from_into_std" => call.ret = Some(call.arg)
    /\ (call.op = "into_std" /\ call.arg.tag \in {"Unknown", "Unix"}) =>
          call.ret = None
    /\ call.op = "local_into_std" =>
          call.ret = CASE call.arg.addr.tag = "IPv4" -> Some(StdV4(call.arg.addr.val))
                       [] call.arg.addr.tag = "IPv6" -> Some(StdV6(call.arg.addr.val))
                       [] OTHER -> None

\* C7 witness: an IPv6 std address came back from the round trip.
C7_Witness ==
    /\ call.op = "from_into_std"
    /\ call.arg.fam = "V6"
    /\ call.ret # None

\* C8: of is_ipv4(), is_ipv6(), is_unix() exactly one is true, none for
\* Unknown; each as_ accessor returns a value exactly when its predicate is
\* true.
C8_Predicates ==
    call.op = "predicates" =>
        /\ Cardinality({p \in {"is_ipv4", "is_ipv6", "is_unix"} : call.ret[p]})
              = IF call.arg.tag = "Unknown" THEN 0 ELSE 1
        /\ (call.ret.as_ipv4 # None) <=> call.ret.is_ipv4
        /\ (call.ret.as_ipv6 # None) <=> call.ret.is_ipv6
        /\ (call.ret.as_unix # None) <=> call.ret.is_unix

\* C8 witness: the predicates were taken of an IPv6 address.
C8_Witness ==
    /\ call.op = "predicates"
    /\ call.arg.tag = "IPv6"
    /\ call.ret.is_ipv6
    /\ call.ret.as_ipv6 # None

\* C9: a LocalAddr renders as "(<transport>) <app-proto>://<address>" for an
\* IPv4 or IPv6 address, the address in its std text form; as
\* "(<transport>) unix://<path>" for a Unix address with a path; and as
\* "unknown" for Unknown, for every pair of tags.
C9_LocalAddrDisplay ==
    call.op = "local_fmt" =>
        /\ call.arg.addr.tag = "IPv4" =>
              call.ret = "(" \o TransProto_fmt(call.arg.trans_proto) \o ") "
                             \o AppProto_fmt(call.arg.app_proto) \o "://"
                             \o Ipv4Text(call.arg.addr.val.ip) \o ":"
                             \o ToString(call.arg.addr.val.port)
        /\ call.arg.addr.tag = "IPv6" =>
              call.ret = "(" \o TransProto_fmt(call.arg.trans_proto) \o ") "
                             \o AppProto_fmt(call.arg.app_proto) \o "://"
                             \o SocketAddrV6Text(call.arg.addr.val)
        /\ (call.arg.addr.tag = "Unix" /\ call.arg.addr.pathname # None) =>
              call.ret = "(" \o TransProto_fmt(call.arg.trans_proto) \o ") unix://"
                             \o call.arg.addr.pathname[1]
        /\ call.arg.addr.tag = "Unknown" => call.ret = "unknown"
        /\ call.arg = [addr |-> IPv4(V4(Loopback4, 8080)),
                       trans_proto |-> "Tcp", app_proto |-> "Http"]
              => call.ret = "(TCP) HTTP://127.0.0.1:8080"

\* C9 witness: the rendering scenario of the spec.
C9_Witness ==
    /\ call.op = "local_fmt"
    /\ call.arg.addr.tag = "IPv4"
    /\ call.ret = "(TCP) HTTP://127.0.0.1:8080"

\* C10: a LocalAddr whose address is a Unix address without a path renders
\* as "(<transport>) unix://unknown".
C10_PathlessUnixDisplay ==
    (/\ call.op = "local_fmt"
     /\ call.arg.addr.tag = "Unix"
     /\ call.arg.addr.pathname = None)
        => call.ret = "(" \o TransProto_fmt(call.arg.trans_proto) \o ") unix://unknown"

=============================================================================
